---- MODULE Spec2Model ----
(***************************************************************************)
(* Model of SEIR_Foundations/Lab5/python/5a_merge_reports.py: the offline  *)
(* security report merger (ingest JSON documents, extract findings, dedupe, *)
(* summarize through a local LLM or render the deterministic fallback).     *)
(*                                                                         *)
(* Python str values are sequences of one-character strings, so that       *)
(* lower(), upper(), strip(), slicing and comparison are computed.  Parsed  *)
(* JSON values are tagged records [t, v]; a JSON object keeps its pairs in  *)
(* document order, as a Python dict does.                                   *)
(***************************************************************************)
EXTENDS Integers, Sequences, FiniteSets, TLC

VARIABLES
    pc,            \* position of main(): "ingest", "dedupe", "report", "done", "aborted"; "pure" in the function specifications
    listing,       \* sorted(in_dir.glob("*")): sequence of [name, data]
    idx,           \* index in listing of the next file of the loop at line 184
    llm,           \* args.llm: "none" or "ollama"
    all_findings,  \* the list all_findings of main()
    candidates,    \* the value of all_findings before dedupe (line 192)
    artifact,      \* content of extracted_findings.json
    report,        \* content of consolidated_security_report.md, a sequence of lines
    prompt,        \* the prompt sent to the collaborator
    outcome,       \* what the HTTP exchange with the collaborator did
    log,           \* externally visible effects of the run, in order
    input,         \* argument of the function under check (function specifications)
    output         \* its result

vars == <<pc, listing, idx, llm, all_findings, candidates, artifact, report, prompt, outcome, log, input, output>>

(***************************************************************************)
(* Characters and Python str operations                                    *)
(***************************************************************************)

\* The characters of the model, in code point order.
Alphabet ==
    << "\t", " ", "'", ",", "-", ".",
       "0", "1", "2", "3", "4", "5", "6", "7", "8", "9", ":",
       "A", "B", "C", "D", "E", "F", "G", "H", "I", "J", "K", "L", "M",
       "N", "O", "P", "Q", "R", "S", "T", "U", "V", "W", "X", "Y", "Z",
       "[", "]", "_",
       "a", "b", "c", "d", "e", "f", "g", "h", "i", "j", "k", "l", "m",
       "n", "o", "p", "q", "r", "s", "t", "u", "v", "w", "x", "y", "z",
       "{", "}" >>

CharSet == { Alphabet[i] : i \in 1..Len(Alphabet) }

OrdTable == [ c \in CharSet |-> CHOOSE i \in 1..Len(Alphabet) : Alphabet[i] = c ]

Ord(c) == OrdTable[c]

UpperLetters == { Alphabet[i] : i \in OrdTable["A"]..OrdTable["Z"] }

LowerLetters == { Alphabet[i] : i \in OrdTable["a"]..OrdTable["z"] }

Whitespace == { "\t", " " }

CaseShift == OrdTable["a"] - OrdTable["A"]

LowerChar(c) == IF c \in UpperLetters THEN Alphabet[Ord(c) + CaseShift] ELSE c

UpperChar(c) == IF c \in LowerLetters THEN Alphabet[Ord(c) - CaseShift] ELSE c

\* str.lower()
lower(s) == [ i \in 1..Len(s) |-> LowerChar(s[i]) ]

\* str.upper()
upper(s) == [ i \in 1..Len(s) |-> UpperChar(s[i]) ]

\* str.strip(): drop the leading and the trailing whitespace
strip(s) ==
    LET keep == { i \in 1..Len(s) : s[i] \notin Whitespace }
    IN  IF keep = {} THEN << >>
        ELSE LET first == CHOOSE i \in keep : \A j \in keep : i <= j
                 last  == CHOOSE i \in keep : \A j \in keep : j <= i
             IN  SubSeq(s, first, last)

\* s[:n]
Slice(s, n) == IF Len(s) <= n THEN s ELSE SubSeq(s, 1, n)

\* s < t, the order of Python str (and of pathlib paths in one directory)
StrLess(s, t) ==
    \/ /\ Len(s) < Len(t)
       /\ \A i \in 1..Len(s) : s[i] = t[i]
    \/ \E i \in 1..Len(s) :
          /\ i <= Len(t)
          /\ \A j \in 1..(i - 1) : s[j] = t[j]
          /\ Ord(s[i]) < Ord(t[i])

RECURSIVE Digits(_)
Digits(n) ==
    IF n < 10 THEN << Alphabet[Ord("0") + n] >>
    ELSE Append(Digits(n \div 10), Alphabet[Ord("0") + (n % 10)])

\* sep.join(parts)
RECURSIVE Join(_, _)
Join(sep, parts) ==
    IF parts = << >> THEN << >>
    ELSE IF Len(parts) = 1 THEN parts[1]
    ELSE parts[1] \o sep \o Join(sep, Tail(parts))

\* the concatenation of the sequences ss[lo..hi], in order (a loop that
\* extends a list), split in halves to keep the evaluation shallow
RECURSIVE ConcatRange(_, _, _)
ConcatRange(ss, lo, hi) ==
    IF lo > hi THEN << >>
    ELSE IF lo = hi THEN ss[lo]
    ELSE LET mid == (lo + hi) \div 2
         IN  ConcatRange(ss, lo, mid) \o ConcatRange(ss, mid + 1, hi)

Concat(ss) == ConcatRange(ss, 1, Len(ss))

(***************************************************************************)
(* Parsed JSON values (what json.loads returns)                            *)
(***************************************************************************)

JNull == [t |-> "null", v |-> 0]

JBool(b) == [t |-> "bool", v |-> b]

JNum(n) == [t |-> "num", v |-> n]

JStr(s) == [t |-> "str", v |-> s]

JList(items) == [t |-> "list", v |-> items]

\* pairs: a sequence of <<key, value>> with distinct keys, in insertion order
JDict(pairs) == [t |-> "dict", v |-> pairs]

\* bool(x)
Truthy(x) ==
    CASE x.t = "null" -> FALSE
      [] x.t = "bool" -> x.v
      [] x.t = "num"  -> x.v # 0
      [] OTHER        -> Len(x.v) > 0

\* a if a is not None else b: the fallback taken only for an absent key
OrIfNotNone(a, b) == IF a.t # "null" THEN a ELSE b

\* a or b
Or(a, b) == IF Truthy(a) THEN a ELSE b

\* d.get(key): the value under key, None when absent
DictGet(d, key) ==
    IF \E i \in 1..Len(d.v) : d.v[i][1] = key
    THEN d.v[CHOOSE i \in 1..Len(d.v) : d.v[i][1] = key][2]
    ELSE JNull

HasKey(d, key) == \E i \in 1..Len(d.v) : d.v[i][1] = key

\* repr(x) of a parsed value
RECURSIVE PyRepr(_)
PyRepr(x) ==
    CASE x.t = "null" -> <<"N", "o", "n", "e">>
      [] x.t = "bool" -> IF x.v THEN <<"T", "r", "u", "e">> ELSE <<"F", "a", "l", "s", "e">>
      [] x.t = "num"  -> IF x.v < 0 THEN <<"-">> \o Digits(0 - x.v) ELSE Digits(x.v)
      [] x.t = "str"  -> <<"'">> \o x.v \o <<"'">>
      [] x.t = "list" -> <<"[">> \o Join(<<",", " ">>, [ i \in 1..Len(x.v) |-> PyRepr(x.v[i]) ]) \o <<"]">>
      [] x.t = "dict" -> <<"{">> \o Join(<<",", " ">>,
                             [ i \in 1..Len(x.v) |->
                                 <<"'">> \o x.v[i][1] \o <<"'", ":", " ">> \o PyRepr(x.v[i][2]) ])
                         \o <<"}">>

\* str(x)
PyStr(x) == IF x.t = "str" THEN x.v ELSE PyRepr(x)

(***************************************************************************)
(* Severity taxonomy and normalize_sev                                     *)
(***************************************************************************)

CRITICAL == <<"C", "R", "I", "T", "I", "C", "A", "L">>

HIGH == <<"H", "I", "G", "H">>

MEDIUM == <<"M", "E", "D", "I", "U", "M">>

LOW == <<"L", "O", "W">>

INFO == <<"I", "N", "F", "O">>

UNSPECIFIED == <<"U", "N", "S", "P", "E", "C", "I", "F", "I", "E", "D">>

SEV_ORDER == << CRITICAL, HIGH, MEDIUM, LOW, INFO, UNSPECIFIED >>

Taxonomy == { SEV_ORDER[i] : i \in 1..Len(SEV_ORDER) }

\* the dict `mapping` of normalize_sev, as <<alias, member>> pairs
SevAliases ==
    << << <<"C", "R", "I", "T">>, CRITICAL >>,
       << <<"S", "E", "V", "E", "R", "E">>, HIGH >>,
       << <<"M", "O", "D", "E", "R", "A", "T", "E">>, MEDIUM >>,
       << <<"I", "N", "F", "O", "R", "M", "A", "T", "I", "O", "N", "A", "L">>, INFO >> >>

\* mapping.get(s, s)
AliasGet(s) ==
    IF \E i \in 1..Len(SevAliases) : SevAliases[i][1] = s
    THEN SevAliases[CHOOSE i \in 1..Len(SevAliases) : SevAliases[i][1] = s][2]
    ELSE s

\* normalize_sev without the strip() of line 29
normalize_sev_unstripped(sev) ==
    IF ~Truthy(sev) THEN UNSPECIFIED
    ELSE LET s == upper(PyStr(sev))
         IN  IF AliasGet(s) \in Taxonomy THEN AliasGet(s) ELSE UNSPECIFIED

normalize_sev(sev) ==
    IF ~Truthy(sev) THEN UNSPECIFIED
    ELSE LET s == upper(strip(PyStr(sev)))
         IN  IF AliasGet(s) \in Taxonomy THEN AliasGet(s) ELSE UNSPECIFIED

(***************************************************************************)
(* extract_findings_generic                                                *)
(***************************************************************************)

k_severity == <<"s", "e", "v", "e", "r", "i", "t", "y">>

k_level == <<"l", "e", "v", "e", "l">>

k_risk == <<"r", "i", "s", "k">>

k_priority == <<"p", "r", "i", "o", "r", "i", "t", "y">>

k_title == <<"t", "i", "t", "l", "e">>

k_name == <<"n", "a", "m", "e">>

k_check == <<"c", "h", "e", "c", "k">>

k_rule == <<"r", "u", "l", "e">>

k_id == <<"i", "d">>

k_description == <<"d", "e", "s", "c", "r", "i", "p", "t", "i", "o", "n">>

k_message == <<"m", "e", "s", "s", "a", "g", "e">>

k_details == <<"d", "e", "t", "a", "i", "l", "s">>

k_resource == <<"r", "e", "s", "o", "u", "r", "c", "e">>

k_file == <<"f", "i", "l", "e">>

k_path == <<"p", "a", "t", "h">>

k_target == <<"t", "a", "r", "g", "e", "t">>

k_cve == <<"c", "v", "e">>

k_cves == <<"c", "v", "e", "s">>

SevKeys == << k_severity, k_level, k_risk, k_priority >>

IdKeys == << k_title, k_name, k_check, k_rule, k_id >>

TitleMax == 200

DescriptionMax == 2000

ResourceMax == 500

\* walk that does not descend into a finding-shaped dict
RECURSIVE walk_stop_at_match(_)
walk_stop_at_match(x) ==
    CASE x.t = "dict" ->
           IF (\E i \in 1..Len(x.v) : lower(x.v[i][1]) \in { k_severity, k_level, k_risk, k_priority })
              /\ (\E i \in 1..Len(x.v) : lower(x.v[i][1]) \in { k_title, k_name, k_check, k_rule, k_id })
           THEN << x >>
           ELSE << x >> \o Concat([ i \in 1..Len(x.v) |-> walk_stop_at_match(x.v[i][2]) ])
      [] x.t = "list" -> Concat([ i \in 1..Len(x.v) |-> walk_stop_at_match(x.v[i]) ])
      [] OTHER        -> << >>

\* the generator walk(x): every dict reachable through dict values and list
\* items, a dict before its values, values and items in order
RECURSIVE walk(_)
walk(x) ==
    CASE x.t = "dict" -> << x >> \o Concat([ i \in 1..Len(x.v) |-> walk(x.v[i][2]) ])
      [] x.t = "list" -> Concat([ i \in 1..Len(x.v) |-> walk(x.v[i]) ])
      [] OTHER        -> << >>

\* keys = {k.lower() for k in d.keys()}
LowerKeys(d) == { lower(d.v[i][1]) : i \in 1..Len(d.v) }

\* the condition of line 58
IsFindingShaped(d) ==
    /\ \E i \in 1..Len(SevKeys) : SevKeys[i] \in LowerKeys(d)
    /\ \E i \in 1..Len(IdKeys) : IdKeys[i] \in LowerKeys(d)

\* vals[1] or vals[2] or ... or vals[n]
RECURSIVE OrChain(_)
OrChain(vals) ==
    IF Len(vals) = 1 THEN vals[1] ELSE Or(vals[1], OrChain(Tail(vals)))

EmptyStr == JStr(<< >>)

TitleOf(d) ==
    OrChain(<< DictGet(d, k_title), DictGet(d, k_name), DictGet(d, k_check),
               DictGet(d, k_rule), DictGet(d, k_id) >>)

SevOf(d) ==
    OrChain(<< DictGet(d, k_severity), DictGet(d, k_level), DictGet(d, k_risk),
               DictGet(d, k_priority) >>)

DescOf(d) ==
    OrChain(<< DictGet(d, k_description), DictGet(d, k_message), DictGet(d, k_details),
               EmptyStr >>)

ResourceOf(d) ==
    OrChain(<< DictGet(d, k_resource), DictGet(d, k_file), DictGet(d, k_path),
               DictGet(d, k_target), EmptyStr >>)

CveOf(d) == OrChain(<< DictGet(d, k_cve), DictGet(d, k_cves), EmptyStr >>)

\* the record without the slices of lines 66, 68 and 69
MakeFindingUntruncated(d, source) ==
    [ source      |-> source,
      title       |-> PyStr(TitleOf(d)),
      severity    |-> normalize_sev(SevOf(d)),
      description |-> PyStr(DescOf(d)),
      resource    |-> PyStr(ResourceOf(d)),
      cve         |-> CveOf(d) ]

\* the record appended at lines 64-71
MakeFinding(d, source) ==
    [ source      |-> source,
      title       |-> Slice(PyStr(TitleOf(d)), TitleMax),
      severity    |-> normalize_sev(SevOf(d)),
      description |-> Slice(PyStr(DescOf(d)), DescriptionMax),
      resource    |-> Slice(PyStr(ResourceOf(d)), ResourceMax),
      cve         |-> CveOf(d) ]

extract_findings_generic(obj, source) ==
    LET matched == SelectSeq(walk(obj), IsFindingShaped)
    IN  [ i \in 1..Len(matched) |-> MakeFinding(matched[i], source) ]

(***************************************************************************)
(* dedupe                                                                  *)
(***************************************************************************)

DedupKey(f) == << lower(f.title), lower(f.resource), f.severity >>

\* seen.add(key), as an enumerated set
SetAdd(seen, key) == { k : k \in seen \cup { key } }

\* an iteration that compares titles and resources in their exact case
DedupeStepExactCase(st, f) ==
    IF << f.title, f.resource, f.severity >> \in st.seen THEN st
    ELSE [ seen |-> SetAdd(st.seen, << f.title, f.resource, f.severity >>),
           out  |-> Append(st.out, f) ]

\* one iteration of the loop of dedupe on finding f, from state st = [seen, out]
DedupeStep(st, f) ==
    IF DedupKey(f) \in st.seen THEN st
    ELSE [ seen |-> SetAdd(st.seen, DedupKey(f)), out |-> Append(st.out, f) ]

\* the iterations lo..hi of the loop, in order, from state st; the range is
\* split in halves, the first half evaluated before the second starts, to
\* keep the evaluation shallow
RECURSIVE DedupeLoop(_, _, _, _)
DedupeLoop(findings, lo, hi, st) ==
    IF lo > hi THEN st
    ELSE IF lo = hi THEN DedupeStep(st, findings[lo])
    ELSE LET mid == (lo + hi) \div 2
             half == DedupeLoop(findings, lo, mid, st)
         IN  IF Len(half.out) >= 0 THEN DedupeLoop(findings, mid + 1, hi, half) ELSE half

dedupe(findings) ==
    DedupeLoop(findings, 1, Len(findings), [ seen |-> {}, out |-> << >> ]).out

(***************************************************************************)
(* call_local_llm_ollama, build_llm_prompt, render_fallback_report         *)
(***************************************************************************)

k_response == <<"r", "e", "s", "p", "o", "n", "s", "e">>

\* What urlopen and resp.read() did: kind "unreachable" or "timeout" (urlopen
\* raises), "malformed" (the body is not JSON: json.loads raises), or "json"
\* with the parsed body in data.
HttpOutcome(kind, data) == [ kind |-> kind, data |-> data ]

\* The result of the call: raised with the exception e, or the returned text.
Raised(e) == [ raised |-> TRUE, e |-> e, text |-> << >> ]

Returned(text) == [ raised |-> FALSE, e |-> "", text |-> text ]

call_local_llm_ollama(o) ==
    CASE o.kind = "unreachable" -> Raised("URLError")
      [] o.kind = "timeout"     -> Raised("TimeoutError")
      [] o.kind = "malformed"   -> Raised("JSONDecodeError")
      [] OTHER ->
           IF o.data.t # "dict" THEN Raised("AttributeError")
           ELSE LET r == IF HasKey(o.data, k_response)
                         THEN DictGet(o.data, k_response) ELSE EmptyStr
                IN  IF r.t # "str" THEN Raised("AttributeError")
                    ELSE Returned(strip(r.v))

PromptCap == 400

\* the dict appended to items at lines 101-107
PromptItem(f) ==
    [ source      |-> f.source,
      severity    |-> f.severity,
      title       |-> f.title,
      resource    |-> f.resource,
      description |-> f.description ]

\* the prompt without the cap of line 100
build_llm_prompt_uncapped(findings) ==
    [ rules   |-> "You are a security report MERGER...",
      request |-> "Create a consolidated report with...",
      items   |-> [ i \in 1..Len(findings) |-> PromptItem(findings[i]) ] ]

\* rules, request and json.dumps(items) are kept apart as fields
build_llm_prompt(findings) ==
    LET capped == Slice(findings, PromptCap)
    IN  [ rules   |-> "You are a security report MERGER...",
          request |-> "Create a consolidated report with...",
          items   |-> [ i \in 1..Len(capped) |-> PromptItem(capped[i]) ] ]

SourceListCap == 30

SeverityListCap == 50

\* sorted(S) for a set of str
RECURSIVE SortStrs(_)
SortStrs(S) ==
    IF S = {} THEN << >>
    ELSE LET m == CHOOSE x \in S : \A y \in S : y = x \/ StrLess(x, y)
         IN  << m >> \o SortStrs(S \ { m })

\* by_source[src]
OfSource(findings, src) == SelectSeq(findings, LAMBDA f : f.source = src)

\* [x for x in findings if x["severity"] == sev]
OfSeverity(findings, sev) == SelectSeq(findings, LAMBDA f : f.severity = sev)

\* a source section whose heading counts the lines listed
SourceSectionCountShown(findings, src) ==
    LET shown == Slice(OfSource(findings, src), SourceListCap)
    IN  << [ k |-> "source_heading", source |-> src, count |-> Len(shown) ] >>
        \o [ i \in 1..Len(shown) |->
               [ k |-> "source_item", severity |-> shown[i].severity,
                 title |-> shown[i].title, resource |-> shown[i].resource ] ]

\* lines 148-151 for one source
SourceSection(findings, src) ==
    LET items == OfSource(findings, src)
        shown == Slice(items, SourceListCap)
    IN  << [ k |-> "source_heading", source |-> src, count |-> Len(items) ] >>
        \o [ i \in 1..Len(shown) |->
               [ k |-> "source_item", severity |-> shown[i].severity,
                 title |-> shown[i].title, resource |-> shown[i].resource ] ]

\* lines 155-160 for one severity
SeveritySection(findings, sev) ==
    LET items == OfSeverity(findings, sev)
        shown == Slice(items, SeverityListCap)
    IN  IF items = << >> THEN << >>
        ELSE << [ k |-> "severity_heading", severity |-> sev, count |-> Len(items) ] >>
             \o [ i \in 1..Len(shown) |->
                    [ k |-> "severity_item", title |-> shown[i].title,
                      source |-> shown[i].source ] ]

\* the list `lines` of render_fallback_report, one record per line
render_fallback_report(findings) ==
    LET sources == SortStrs({ findings[i].source : i \in 1..Len(findings) })
    IN  << [ k |-> "h1", text |-> "Consolidated Security Report (Fallback)" ],
           [ k |-> "h2", text |-> "Executive Summary" ],
           [ k |-> "total", count |-> Len(findings) ],
           [ k |-> "text", text |-> "- Severity counts (as-reported):" ] >>
        \o [ i \in 1..Len(SEV_ORDER) |->
               [ k |-> "histogram", severity |-> SEV_ORDER[i],
                 count |-> Len(OfSeverity(findings, SEV_ORDER[i])) ] ]
        \o << [ k |-> "h2", text |-> "Findings by Source Tool" ] >>
        \o Concat([ i \in 1..Len(sources) |-> SourceSection(findings, sources[i]) ])
        \o << [ k |-> "h2", text |-> "Findings by Severity (as-reported)" ] >>
        \o Concat([ i \in 1..Len(SEV_ORDER) |-> SeveritySection(findings, SEV_ORDER[i]) ])
        \o << [ k |-> "h2", text |-> "Analyst Next Actions" ],
              [ k |-> "text", text |-> "- [ ] Validate Critical/High findings directly in the environment" ],
              [ k |-> "text", text |-> "- [ ] Confirm scope and false positives" ],
              [ k |-> "text", text |-> "- [ ] Create remediation tickets with owners + deadlines" ],
              [ k |-> "text", text |-> "- [ ] Add/adjust detections for repeated patterns" ] >>

\* the text md of line 201
FailureReport(e, findings) ==
    << [ k |-> "h1", text |-> "Consolidated Security Report" ],
       [ k |-> "notice", text |-> "LLM call failed: ", e |-> e ] >>
    \o render_fallback_report(findings)

\* the collaborator's text as report lines: the empty str has none
TextLines(text) == IF text = << >> THEN << >> ELSE << [ k |-> "llm_text", text |-> text ] >>

(***************************************************************************)
(* main                                                                    *)
(***************************************************************************)

\* i such that name[i] is the last "." of name, 0 when there is none
LastDot(name) ==
    LET dots == { i \in 1..Len(name) : name[i] = "." }
    IN  IF dots = {} THEN 0 ELSE CHOOSE i \in dots : \A j \in dots : j <= i

\* p.suffix: from the last dot, unless the dot starts or ends the name
PathSuffix(name) ==
    IF 1 < LastDot(name) /\ LastDot(name) < Len(name)
    THEN SubSeq(name, LastDot(name), Len(name)) ELSE << >>

\* p.stem
PathStem(name) ==
    IF 1 < LastDot(name) /\ LastDot(name) < Len(name)
    THEN SubSeq(name, 1, LastDot(name) - 1) ELSE name

DotJson == <<".", "j", "s", "o", "n">>

\* the content of a file that json.loads rejects (or that cannot be read)
Unparsable == [t |-> "error", v |-> 0]

\* safe_load_json: the parsed content, None on any exception
safe_load_json(data) == IF data.t = "error" THEN JNull ELSE data

\* sorted(in_dir.glob("*")) for a directory given as a set of [name, data]
RECURSIVE SortFiles(_)
SortFiles(dir) ==
    IF dir = {} THEN << >>
    ELSE LET m == CHOOSE f \in dir : \A g \in dir : g = f \/ StrLess(f.name, g.name)
         IN  << m >> \o SortFiles(dir \ { m })

\* nesting depth of containers: the depth the recursion of walk (and of the
\* JSON parser) reaches on x
RECURSIVE Depth(_)
Depth(x) ==
    IF x.t \notin { "dict", "list" } \/ x.v = << >> THEN IF x.t \in { "dict", "list" } THEN 1 ELSE 0
    ELSE LET ds == { Depth(IF x.t = "dict" THEN x.v[i][2] ELSE x.v[i]) : i \in 1..Len(x.v) }
         IN  1 + (CHOOSE m \in ds : \A n \in ds : n <= m)

\* The interpreter's recursion limit (sys.getrecursionlimit(), 1000 by default),
\* scaled down.  The source sets no limit of its own: walk recurses once per
\* nesting level.
PyRecursionLimit == 6

\* One iteration of the loop of lines 184-190.  On a document nested deeper
\* than the interpreter allows, either json.loads raises RecursionError, which
\* safe_load_json turns into None (the document is skipped), or the parse
\* succeeds and walk raises RecursionError, which nothing catches: which of
\* the two depends on the interpreter build.
IngestFile ==
    /\ pc = "ingest"
    /\ idx <= Len(listing)
    /\ LET p == listing[idx]
           data == safe_load_json(p.data)
       IN  IF lower(PathSuffix(p.name)) # DotJson \/ data.t = "null"
           THEN /\ idx' = idx + 1
                /\ UNCHANGED << pc, all_findings >>
           ELSE IF Depth(data) > PyRecursionLimit
           THEN \E raised_in \in { "json.loads", "walk" } :
                   IF raised_in = "json.loads"
                   THEN /\ idx' = idx + 1
                        /\ UNCHANGED << pc, all_findings >>
                   ELSE /\ pc' = "aborted"
                        /\ UNCHANGED << idx, all_findings >>
           ELSE /\ all_findings' = all_findings \o extract_findings_generic(data, PathStem(p.name))
                /\ idx' = idx + 1
                /\ UNCHANGED pc
    /\ UNCHANGED << listing, llm, candidates, artifact, report, prompt, outcome, log, input, output >>

\* lines 192-194: dedupe and write extracted_findings.json
DedupeAndPersist ==
    /\ pc = "ingest"
    /\ idx > Len(listing)
    /\ candidates' = all_findings
    /\ all_findings' = dedupe(all_findings)
    /\ artifact' = all_findings'
    /\ log' = Append(log, "write_findings")
    /\ pc' = "report"
    /\ UNCHANGED << listing, idx, llm, report, prompt, outcome, input, output >>

NoOutcome == HttpOutcome("none", JNull)

\* the bodies the collaborator may answer with
ResponseBodies ==
    { JDict(<< << k_response, JStr(<<" ", "R", "e", "p", "o", "r", "t", " ">>) >> >>),
      JDict(<< << k_response, EmptyStr >> >>),
      JDict(<< << k_response, JStr(<<" ", "\t">>) >> >>),
      JDict(<< << k_response, JNull >> >>),
      JDict(<< << <<"e", "r", "r", "o", "r">>, JStr(<<"n", "o", " ", "m", "o", "d", "e", "l">>) >> >>),
      JList(<< >>) }

HttpOutcomes ==
    { HttpOutcome(kind, JNull) : kind \in { "unreachable", "timeout", "malformed" } }
    \cup { HttpOutcome("json", body) : body \in ResponseBodies }

\* Summarize with one retry after a call that raised
SummarizeWithRetry ==
    /\ pc = "report"
    /\ llm = "ollama"
    /\ prompt' = build_llm_prompt(all_findings)
    /\ \E first \in HttpOutcomes, second \in HttpOutcomes :
          LET r1 == call_local_llm_ollama(first)
              r2 == call_local_llm_ollama(second)
          IN  IF r1.raised
              THEN /\ outcome' = second
                   /\ report' = IF r2.raised THEN FailureReport(r2.e, all_findings)
                                 ELSE TextLines(r2.text)
                   /\ log' = log \o << "llm_call", "llm_call", "write_report" >>
              ELSE /\ outcome' = first
                   /\ report' = TextLines(r1.text)
                   /\ log' = log \o << "llm_call", "write_report" >>
    /\ pc' = "done"
    /\ UNCHANGED << listing, idx, llm, all_findings, candidates, artifact, input, output >>

\* lines 196-201 and 205 with --llm ollama: one call, then the report is written
Summarize ==
    /\ pc = "report"
    /\ llm = "ollama"
    /\ prompt' = build_llm_prompt(all_findings)
    /\ \E o \in HttpOutcomes :
          /\ outcome' = o
          /\ LET r == call_local_llm_ollama(o)
             IN  report' = IF r.raised THEN FailureReport(r.e, all_findings)
                           ELSE TextLines(r.text)
    /\ log' = log \o << "llm_call", "write_report" >>
    /\ pc' = "done"
    /\ UNCHANGED << listing, idx, llm, all_findings, candidates, artifact, input, output >>

\* lines 202-205 with --llm none
RenderOnly ==
    /\ pc = "report"
    /\ llm = "none"
    /\ report' = render_fallback_report(all_findings)
    /\ log' = Append(log, "write_report")
    /\ pc' = "done"
    /\ UNCHANGED << listing, idx, llm, all_findings, candidates, artifact, prompt, outcome, input, output >>

Next == IngestFile \/ DedupeAndPersist \/ Summarize \/ RenderOnly

(***************************************************************************)
(* Input directories                                                       *)
(***************************************************************************)

\* how far the over-long values of the documents exceed the field maxima
Excess == 1

Rep(c, n) == [ i \in 1..n |-> c ]

s_open_port == <<"O", "p", "e", "n", " ", "p", "o", "r", "t">>

s_host == <<"1", "0", ".", "0", ".", "0", ".", "1">>

\* document a of scenario B
DocA ==
    JList(<< JDict(<< << k_severity, JStr(<<"H", "i", "g", "h">>) >>,
                      << k_title, JStr(s_open_port) >>,
                      << k_resource, JStr(s_host) >> >>) >>)

\* document b of scenario B, the title in another case
DocB ==
    JList(<< JDict(<< << k_level, JStr(HIGH) >>,
                      << k_name, JStr(upper(s_open_port)) >>,
                      << k_file, JStr(s_host) >>,
                      << k_message, JStr(<<"s", "e", "e", "n", " ", "b", "y", " ", "b">>) >> >>) >>)

\* a finding-shaped mapping inside another one, under a wrapper
DocNested ==
    JDict(<< << <<"r", "e", "s", "u", "l", "t", "s">>,
                JList(<< JDict(<< << k_severity, JStr(<<"c", "r", "i", "t">>) >>,
                                  << k_title, JStr(<<"X">>) >>,
                                  << k_details, JDict(<< << k_risk, JStr(<<"l", "o", "w">>) >>,
                                                         << k_id, JNum(7) >> >>) >>,
                                  << k_cve, JStr(<<"C", "V", "E", "-", "1">>) >> >>) >>) >> >>)

\* a root that is neither a mapping nor a sequence
DocString == JStr(<<"p", "l", "a", "i", "n">>)

\* values longer than the field maxima, an alias with padding, a list of CVEs
DocLong ==
    JList(<< JDict(<< << k_priority, JStr(<<" ", "m", "o", "d", "e", "r", "a", "t", "e", " ">>) >>,
                      << k_rule, JStr(Rep("a", TitleMax + Excess)) >>,
                      << k_description, JStr(Rep("b", DescriptionMax + Excess)) >>,
                      << k_target, JStr(Rep("c", ResourceMax + Excess)) >>,
                      << k_cves, JList(<< JStr(<<"C", "V", "E", "-", "2">>) >>) >> >>) >>)

\* present keys with falsy values, keys in another case, an unknown severity
DocFalsy ==
    JList(<< JDict(<< << k_title, EmptyStr >>,
                      << k_name, JStr(s_open_port) >>,
                      << k_severity, JNum(0) >>,
                      << k_level, JStr(HIGH) >>,
                      << k_resource, JNull >>,
                      << k_path, JStr(s_host) >> >>),
             JDict(<< << <<"S", "e", "v", "e", "r", "i", "t", "y">>, JStr(<<"b", "a", "n", "a", "n", "a">>) >>,
                      << <<"I", "D">>, JNum(12) >> >>) >>)

\* three findings, the first and the third with one key
DocDup ==
    JList(<< JDict(<< << k_severity, JStr(<<"h", "i", "g", "h">>) >>,
                      << k_title, JStr(s_open_port) >>,
                      << k_resource, JStr(s_host) >>,
                      << k_description, JStr(<<"o", "n", "e">>) >> >>),
             JDict(<< << k_severity, JStr(<<"l", "o", "w">>) >>,
                      << k_title, JStr(<<"O", "t", "h", "e", "r">>) >> >>),
             JDict(<< << k_risk, JStr(HIGH) >>,
                      << k_check, JStr(lower(s_open_port)) >>,
                      << k_target, JStr(s_host) >>,
                      << k_description, JStr(<<"t", "h", "r", "e", "e">>) >> >>) >>)

SpecDocs == { DocA, DocB, DocDup, DocNested, DocString, DocLong, DocFalsy, JNull, Unparsable }

n_a_json == <<"a", ".", "j", "s", "o", "n">>

n_b_JSON == <<"b", ".", "J", "S", "O", "N">>

n_c_txt == <<"c", ".", "t", "x", "t">>

File(name, data) == [ name |-> name, data |-> data ]

\* the directories of Spec: any of a.json and b.JSON with any document, and
\* possibly a file c.txt that holds findings
SpecDirs ==
    { A \cup B \cup C :
        A \in { {} } \cup { { File(n_a_json, d) } : d \in SpecDocs },
        B \in { {} } \cup { { File(n_b_JSON, d) } : d \in SpecDocs },
        C \in { {}, { File(n_c_txt, DocA) } } }

InitRun(dirs) ==
    /\ pc = "ingest"
    /\ \E dir \in dirs : listing = SortFiles(dir)
    /\ idx = 1
    /\ llm \in { "none", "ollama" }
    /\ all_findings = << >>
    /\ candidates = << >>
    /\ artifact = << >>
    /\ report = << >>
    /\ prompt = [ rules |-> "", request |-> "", items |-> << >> ]
    /\ outcome = NoOutcome
    /\ log = << >>
    /\ input = JNull
    /\ output = << >>

Init == InitRun(SpecDirs)

Spec == Init /\ [][Next]_vars

(***************************************************************************)
(* Specifications of the pure functions: the argument is drawn in Init and *)
(* one action applies the function                                         *)
(***************************************************************************)

InitPure(inputs) ==
    /\ pc = "call"
    /\ input \in inputs
    /\ output = << >>
    /\ listing = << >>
    /\ idx = 1
    /\ llm = "none"
    /\ all_findings = << >>
    /\ candidates = << >>
    /\ artifact = << >>
    /\ report = << >>
    /\ prompt = [ rules |-> "", request |-> "", items |-> << >> ]
    /\ outcome = NoOutcome
    /\ log = << >>

mainVars == << listing, idx, llm, all_findings, candidates, artifact, report, prompt, outcome, log >>

\* ---- normalize_sev ----

\* how many whitespace characters pad a token on each side, at most
MaxPad == 1

SevWords ==
    { <<"c", "r", "i", "t">>,
      <<"c", "r", "i", "t", "i", "c", "a", "l">>,
      <<"s", "e", "v", "e", "r", "e">>,
      <<"h", "i", "g", "h">>,
      <<"m", "o", "d", "e", "r", "a", "t", "e">>,
      <<"m", "e", "d", "i", "u", "m">>,
      <<"i", "n", "f", "o", "r", "m", "a", "t", "i", "o", "n", "a", "l">>,
      <<"i", "n", "f", "o">>,
      <<"l", "o", "w">>,
      <<"u", "n", "s", "p", "e", "c", "i", "f", "i", "e", "d">>,
      <<"b", "a", "n", "a", "n", "a">>,
      <<"c", "r", "i", "t", "i", "c">>,
      <<"i", "n", " ", "f", "o">>,
      <<>> }

\* s.capitalize() for a lowercase s
Capitalized(s) == [ i \in 1..Len(s) |-> IF i = 1 THEN UpperChar(s[i]) ELSE s[i] ]

Padded(s, before, after) == Rep(" ", before) \o s \o Rep("\t", after)

\* the raw tokens: the words in three letter cases, padded, and values that
\* are not text
SevTokens ==
    { JStr(Padded(w, b, a)) :
        w \in SevWords \cup { upper(x) : x \in SevWords } \cup { Capitalized(x) : x \in SevWords },
        b \in 0..MaxPad, a \in 0..MaxPad }
    \cup { JNull, JBool(TRUE), JBool(FALSE), JNum(0), JNum(1), JNum(7),
           JList(<< >>), JList(<< JStr(HIGH) >>), JDict(<< >>),
           JDict(<< << k_severity, JStr(HIGH) >> >>) }

CallNormalize ==
    /\ pc = "call"
    /\ output' = normalize_sev(input)
    /\ pc' = "returned"
    /\ UNCHANGED << input, mainVars >>

InitNorm == InitPure(SevTokens)

SpecNorm == InitNorm /\ [][CallNormalize]_vars

\* ---- extract_findings_generic ----

\* a finding-shaped mapping used as a child of other nodes
InnerFinding == JDict(<< << k_risk, JStr(<<"l", "o", "w">>) >>, << k_id, JNum(7) >> >>)

\* a mapping that is not finding-shaped
PlainDict == JDict(<< << <<"x">>, JNum(1) >>, << k_title, JStr(<<"n", "o", " ", "s", "e", "v", "e", "r", "i", "t", "y">>) >> >>)

\* the identifier-like keys of a node: present, absent, in another case, with
\* falsy values, out of precedence order
TitlePairs ==
    { << >>,
      << << k_title, JStr(<<"T">>) >> >>,
      << << k_title, EmptyStr >>, << k_name, JStr(<<"N">>) >> >>,
      << << k_title, JNull >>, << k_name, JNum(0) >>, << k_check, JBool(FALSE) >>, << k_rule, JList(<< >>) >>, << k_id, JNum(5) >> >>,
      << << k_id, JNum(3) >>, << k_name, JStr(<<"N">>) >> >>,
      << << <<"T", "i", "t", "l", "e">>, JStr(<<"T">>) >> >>,
      << << k_id, JNum(0) >> >>,
      << << k_check, JStr(<<"C">>) >>, << k_rule, JStr(<<"R">>) >> >>,
      << << k_name, JStr(<<"N">>) >>, << k_title, JStr(<<"T">>) >> >>,
      << << k_title, JBool(FALSE) >>, << k_rule, JDict(<< >>) >> >> }

\* the severity-like keys of a node
SevPairs ==
    { << >>,
      << << k_severity, JStr(<<"H", "i", "g", "h">>) >> >>,
      << << k_severity, JNum(0) >>, << k_level, JStr(<<"S", "e", "v", "e", "r", "e">>) >> >>,
      << << k_severity, EmptyStr >>, << k_level, JNull >>, << k_risk, JBool(FALSE) >>, << k_priority, JStr(<<"c", "r", "i", "t">>) >> >>,
      << << <<"L", "E", "V", "E", "L">>, JStr(<<"l", "o", "w">>) >> >>,
      << << k_priority, JStr(<<"l", "o", "w">>) >>, << k_risk, JStr(<<"i", "n", "f", "o">>) >> >>,
      << << k_level, JStr(<<"b", "a", "n", "a", "n", "a">>) >> >>,
      << << k_priority, JNum(0) >> >>,
      << << k_risk, JNum(3) >> >> }

\* the description, resource and cve keys of a node
OtherPairs ==
    { << >>,
      << << k_description, EmptyStr >>, << k_message, JStr(<<"M">>) >>, << k_resource, JNull >>, << k_file, JStr(<<"F">>) >>, << k_cve, JList(<< >>) >>, << k_cves, JList(<< JStr(<<"C", "V", "E", "-", "2">>) >>) >> >>,
      << << k_details, InnerFinding >>, << k_path, JStr(<<"P">>) >>, << k_target, JStr(<<"G">>) >>, << k_cve, JStr(<<"C", "V", "E", "-", "1">>) >> >>,
      << << k_description, JStr(<<"D">>) >>, << k_message, JStr(<<"M">>) >>, << k_details, JStr(<<"X">>) >>, << k_resource, EmptyStr >>, << k_file, EmptyStr >>, << k_path, EmptyStr >>, << k_target, JNum(0) >>, << k_cve, JNum(0) >>, << k_cves, EmptyStr >> >>,
      << << <<"D", "e", "s", "c", "r", "i", "p", "t", "i", "o", "n">>, JStr(<<"D">>) >>, << k_target, JStr(<<"G">>) >>, << k_file, JBool(FALSE) >> >> }

\* single mapping nodes
Nodes == { JDict(tp \o sp \o op) : tp \in TitlePairs, sp \in SevPairs, op \in OtherPairs }

\* how many wrappers surround a tree, and how many items a list holds, at most
MaxWrap == 2

MaxWidth == 2

\* the trees the shapes are built from: findings, a nested pair, a plain
\* mapping, scalars
Parts ==
    { InnerFinding,
      PlainDict,
      JDict(<< << k_severity, JStr(<<"c", "r", "i", "t">>) >>, << k_title, JStr(<<"X">>) >>, << k_details, InnerFinding >> >>),
      JDict(<< << <<"m", "e", "t", "a">>, JList(<< InnerFinding, JNum(2) >>) >>, << k_name, JStr(<<"Y">>) >>, << k_level, JStr(<<"S", "e", "v", "e", "r", "e">>) >> >>),
      JStr(<<"p", "l", "a", "i", "n">>),
      JNull }

\* the sequences over S of length at most n
RECURSIVE SeqsUpTo(_, _)
SeqsUpTo(S, n) ==
    IF n = 0 THEN { << >> }
    ELSE LET shorter == SeqsUpTo(S, n - 1)
         IN  shorter \cup { Append(s, x) : s \in { t \in shorter : Len(t) = n - 1 }, x \in S }

\* x under k wrappers, lists and mappings in turn
RECURSIVE Wrap(_, _)
Wrap(x, k) ==
    IF k = 0 THEN x
    ELSE IF k % 2 = 1 THEN JList(<< Wrap(x, k - 1) >>)
    ELSE JDict(<< << <<"r", "e", "s", "u", "l", "t", "s">>, Wrap(x, k - 1) >>, << <<"c", "o", "u", "n", "t">>, JNum(1) >> >>)

Shapes ==
    { Wrap(JList(items), k) : items \in SeqsUpTo(Parts, MaxWidth), k \in 0..MaxWrap }
    \cup { Wrap(JDict(<< << <<"f", "i", "r", "s", "t">>, x >>, << <<"s", "e", "c", "o", "n", "d">>, y >> >>), k) :
             x \in Parts, y \in Parts, k \in 0..MaxWrap }

ExtractInputs ==
    Nodes \cup Shapes \cup { JStr(<<"p", "l", "a", "i", "n">>), JNum(3), JBool(TRUE), JNull }

s_scan == <<"s", "c", "a", "n">>

CallExtract ==
    /\ pc = "call"
    /\ output' = extract_findings_generic(input, s_scan)
    /\ pc' = "returned"
    /\ UNCHANGED << input, mainVars >>

InitExtract == InitPure(ExtractInputs)

SpecExtract == InitExtract /\ [][CallExtract]_vars

\* ---- render_fallback_report ----

\* how many findings a rendered list holds, and from how many sources, at most
MaxRenderN == 52

MaxSources == 2

\* a deduplicated list of n findings: finding i comes from source i % nsrc and
\* has the severity at position (first + i % nsev) of the taxonomy
RenderList(n, nsrc, nsev, first) ==
    [ i \in 1..n |->
        [ source      |-> <<"s">> \o Digits(i % nsrc),
          title       |-> <<"t">> \o Digits(i),
          severity    |-> SEV_ORDER[((first + (i % nsev)) % Len(SEV_ORDER)) + 1],
          description |-> << >>,
          resource    |-> IF i % 3 = 0 THEN << >> ELSE <<"r">> \o Digits(i),
          cve         |-> EmptyStr ] ]

RenderInputs ==
    { RenderList(n, nsrc, nsev, first) :
        n \in 0..MaxRenderN, nsrc \in 1..MaxSources, nsev \in { 1, 3, 6 }, first \in { 0, 4 } }

CallRender ==
    /\ pc = "call"
    /\ output' = render_fallback_report(input)
    /\ pc' = "returned"
    /\ UNCHANGED << input, mainVars >>

InitRender == InitPure(RenderInputs)

SpecRender == InitRender /\ [][CallRender]_vars

\* ---- main on one large document ----

\* how far the number of findings of the large document goes past the cap of
\* the prompt
MaxOver == 2

\* a document that lists n findings with distinct titles and CVEs
BulkDoc(n) ==
    JList([ i \in 1..n |->
              JDict(<< << k_severity, JStr(SEV_ORDER[(i % Len(SEV_ORDER)) + 1]) >>,
                       << k_title, JStr(<<"t">> \o Digits(i)) >>,
                       << k_resource, JStr(<<"r">> \o Digits(i % 7)) >>,
                       << k_message, JStr(<<"m">> \o Digits(i)) >>,
                       << k_cve, JStr(<<"C", "V", "E", "-">> \o Digits(i)) >> >>) ])

BulkDirs ==
    { { File(n_a_json, BulkDoc(n)) } \cup B :
        n \in { 0, 1 } \cup ((PromptCap - MaxOver)..(PromptCap + MaxOver)),
        B \in { {}, { File(n_b_JSON, DocA) } } }

InitBulk == InitRun(BulkDirs)

SpecBulk == InitBulk /\ [][Next]_vars

\* ---- main on deeply nested documents ----

\* how far the nesting of a document goes past the interpreter's limit
MaxOverDepth == 2

\* a finding under k lists
RECURSIVE Nest(_)
Nest(k) == IF k = 0 THEN InnerFinding ELSE JList(<< Nest(k - 1) >>)

\* a finding-shaped root with a finding k + 2 levels down
DeepDoc(k) ==
    JDict(<< << k_severity, JStr(<<"h", "i", "g", "h">>) >>,
             << k_title, JStr(<<"s", "h", "a", "l", "l", "o", "w">>) >>,
             << <<"x">>, Nest(k) >> >>)

DeepDirs ==
    { { File(n_a_json, DeepDoc(k)) } \cup B :
        k \in 0..(PyRecursionLimit + MaxOverDepth),
        B \in { {}, { File(n_b_JSON, DocB) } } }

InitDeep == InitRun(DeepDirs)

SpecDeep == InitDeep /\ [][Next]_vars

(***************************************************************************)
(* Properties                                                              *)
(***************************************************************************)

\* the text the normalizer is claimed to work on: coerced, trimmed, uppercased
ClaimedText(tok) == upper(strip(PyStr(tok)))

\* the severity the claim gives a raw token
ClaimedSeverity(tok) ==
    IF tok.t = "null" \/ (tok.t = "str" /\ tok.v = << >>) THEN UNSPECIFIED
    ELSE LET s == ClaimedText(tok)
             aliased == CASE s = <<"C", "R", "I", "T">> -> CRITICAL
                          [] s = <<"S", "E", "V", "E", "R", "E">> -> HIGH
                          [] s = <<"M", "O", "D", "E", "R", "A", "T", "E">> -> MEDIUM
                          [] s = <<"I", "N", "F", "O", "R", "M", "A", "T", "I", "O", "N", "A", "L">> -> INFO
                          [] OTHER -> s
         IN  IF aliased \in { CRITICAL, HIGH, MEDIUM, LOW, INFO, UNSPECIFIED }
             THEN aliased ELSE UNSPECIFIED

\* C4: normalize_sev returns, for every raw token of any type, a member of the
\* taxonomy: UNSPECIFIED for a missing or empty token, otherwise the trimmed,
\* uppercased text with the aliases CRIT, SEVERE, MODERATE, INFORMATIONAL
\* applied if that is a member, and UNSPECIFIED if it is not ("crit" gives
\* CRITICAL, "Severe" gives HIGH, "banana" gives UNSPECIFIED).
C4_NormalizeTotal ==
    pc = "returned" =>
        /\ output \in Taxonomy
        /\ output = ClaimedSeverity(input)
        /\ input = JStr(<<"c", "r", "i", "t">>) => output = CRITICAL
        /\ input = JStr(<<"S", "e", "v", "e", "r", "e">>) => output = HIGH
        /\ input = JStr(<<"b", "a", "n", "a", "n", "a">>) => output = UNSPECIFIED
        /\ input \in { JNull, EmptyStr } => output = UNSPECIFIED

\* a padded alias in mixed case has been normalized
C4_Witness ==
    /\ pc = "returned"
    /\ input = JStr(Padded(<<"S", "e", "v", "e", "r", "e">>, 1, 1))
    /\ output = HIGH

\* the children of a node, in order: the values of a mapping, the items of a
\* sequence
Children(x) ==
    CASE x.t = "dict" -> [ i \in 1..Len(x.v) |-> x.v[i][2] ]
      [] x.t = "list" -> x.v
      [] OTHER        -> << >>

\* the paths (sequences of child positions) of the nodes reachable from x
RECURSIVE Paths(_)
Paths(x) ==
    { << >> } \cup UNION { { << i >> \o q : q \in Paths(Children(x)[i]) } : i \in 1..Len(Children(x)) }

RECURSIVE NodeAt(_, _)
NodeAt(x, path) == IF path = << >> THEN x ELSE NodeAt(Children(x)[path[1]], Tail(path))

\* finding-shaped, as the claim states it
ClaimedShaped(d) ==
    /\ d.t = "dict"
    /\ \E i \in 1..Len(d.v) : lower(d.v[i][1]) \in { k_severity, k_level, k_risk, k_priority }
    /\ \E i \in 1..Len(d.v) : lower(d.v[i][1]) \in { k_title, k_name, k_check, k_rule, k_id }

MatchedPaths(x) == { q \in Paths(x) : ClaimedShaped(NodeAt(x, q)) }

\* path a comes before path b in depth-first pre-order
Before(a, b) ==
    \/ Len(a) < Len(b) /\ \A i \in 1..Len(a) : a[i] = b[i]
    \/ \E i \in 1..Len(a) :
          /\ i <= Len(b)
          /\ \A j \in 1..(i - 1) : a[j] = b[j]
          /\ a[i] < b[i]

Rank(x, path) == 1 + Cardinality({ q \in MatchedPaths(x) : Before(q, path) })

\* C9: extract_findings_generic yields exactly one Finding per finding-shaped
\* mapping reachable from the root through mappings and sequences, in
\* depth-first pre-order, the children of a matched node included; a root
\* that is neither a mapping nor a sequence yields none.
C9_OnePerShapedNodePreOrder ==
    pc = "returned" =>
        /\ Len(output) = Cardinality(MatchedPaths(input))
        /\ \A q \in MatchedPaths(input) :
              output[Rank(input, q)] = MakeFinding(NodeAt(input, q), s_scan)
        /\ input.t \notin { "dict", "list" } => output = << >>

\* a finding-shaped mapping inside a finding-shaped root has given two Findings
C9_Witness ==
    /\ pc = "returned"
    /\ ClaimedShaped(input)
    /\ \E q \in MatchedPaths(input) : q # << >>
    /\ Len(output) = 2

DescKeys == << k_description, k_message, k_details >>

ResourceKeys == << k_resource, k_file, k_path, k_target >>

CveKeys == << k_cve, k_cves >>

AnyPresent(d, keys) == \E i \in 1..Len(keys) : HasKey(d, keys[i])

\* the value under the first key of keys that d holds, else default
FirstPresent(d, keys, default) ==
    IF AnyPresent(d, keys)
    THEN DictGet(d, keys[CHOOSE i \in 1..Len(keys) :
                           /\ HasKey(d, keys[i])
                           /\ \A j \in 1..(i - 1) : ~HasKey(d, keys[j])])
    ELSE default

HasTruthy(d, key) == HasKey(d, key) /\ Truthy(DictGet(d, key))

\* the value under the first key of keys that d holds with a truthy value,
\* else default
FirstTruthy(d, keys, default) ==
    IF \E i \in 1..Len(keys) : HasTruthy(d, keys[i])
    THEN DictGet(d, keys[CHOOSE i \in 1..Len(keys) :
                           /\ HasTruthy(d, keys[i])
                           /\ \A j \in 1..(i - 1) : ~HasTruthy(d, keys[j])])
    ELSE default

\* C3 as stated: each derived field of a matched node takes the value of the
\* first key of its precedence list that is present in the node, also when
\* that value is empty, zero, false or null.
C3_FirstPresentWins ==
    (pc = "returned" /\ ClaimedShaped(input)) =>
        /\ AnyPresent(input, IdKeys) =>
              output[1].title = Slice(PyStr(FirstPresent(input, IdKeys, JNull)), TitleMax)
        /\ AnyPresent(input, SevKeys) =>
              output[1].severity = normalize_sev(FirstPresent(input, SevKeys, JNull))
        /\ output[1].description = Slice(PyStr(FirstPresent(input, DescKeys, EmptyStr)), DescriptionMax)
        /\ output[1].resource = Slice(PyStr(FirstPresent(input, ResourceKeys, EmptyStr)), ResourceMax)
        /\ output[1].cve = FirstPresent(input, CveKeys, EmptyStr)

\* C3 amended: each derived field of a matched node takes the value of the
\* first key of its precedence list whose value in the node is truthy (present
\* and not empty, zero, false or null); when no key has one, description,
\* resource and cve are the empty string, the title is the text of the value
\* under id and the raw severity is the value under priority (None when absent).
C3_FirstTruthyWins ==
    (pc = "returned" /\ ClaimedShaped(input)) =>
        /\ output[1].title = Slice(PyStr(FirstTruthy(input, IdKeys, DictGet(input, k_id))), TitleMax)
        /\ output[1].severity = normalize_sev(FirstTruthy(input, SevKeys, DictGet(input, k_priority)))
        /\ output[1].description = Slice(PyStr(FirstTruthy(input, DescKeys, EmptyStr)), DescriptionMax)
        /\ output[1].resource = Slice(PyStr(FirstTruthy(input, ResourceKeys, EmptyStr)), ResourceMax)
        /\ output[1].cve = FirstTruthy(input, CveKeys, EmptyStr)

\* a node with an empty title and a name has taken its title from the name,
\* and its severity from level, severity being 0
C3_Witness ==
    /\ pc = "returned"
    /\ ClaimedShaped(input)
    /\ HasKey(input, k_title) /\ DictGet(input, k_title) = EmptyStr
    /\ HasKey(input, k_severity) /\ DictGet(input, k_severity) = JNum(0)
    /\ output[1].title = <<"N">>
    /\ output[1].severity = HIGH

AfterDedupe == pc \in { "report", "done" }

\* the positions of candidates that hold the first Finding of their key
FirstOfKey ==
    { i \in 1..Len(candidates) :
        \A j \in 1..(i - 1) : DedupKey(candidates[j]) # DedupKey(candidates[i]) }

\* the files of the directory that main reads findings from
Dir == { listing[i] : i \in 1..Len(listing) }

Ingested(f) == lower(PathSuffix(f.name)) = DotJson /\ f.data.t \notin { "error", "null" }

Yields(f, key) ==
    /\ Ingested(f)
    /\ LET found == extract_findings_generic(f.data, PathStem(f.name))
       IN  \E i \in 1..Len(found) : DedupKey(found[i]) = key

\* the document that yields key and whose file name is the least
FirstYielding(key) ==
    CHOOSE f \in Dir :
        /\ Yields(f, key)
        /\ \A g \in Dir : Yields(g, key) => (g = f \/ StrLess(f.name, g.name))

\* C1: dedupe returns the order-preserving subsequence of the candidates that
\* holds, for each key (lowercased title, lowercased resource, severity), the
\* first candidate with that key and no other; as main reads the documents in
\* file-name order, the survivor of a key comes from the first document, in
\* that order, that yields the key.
C1_FirstWinsInDocumentOrder ==
    AfterDedupe =>
        /\ \A i, j \in 1..Len(all_findings) :
              i < j => DedupKey(all_findings[i]) # DedupKey(all_findings[j])
        /\ Len(all_findings) = Cardinality(FirstOfKey)
        /\ \A i \in FirstOfKey :
              all_findings[Cardinality({ j \in FirstOfKey : j <= i })] = candidates[i]
        /\ \A i \in 1..Len(all_findings) :
              all_findings[i].source = PathStem(FirstYielding(DedupKey(all_findings[i])).name)

\* documents a and b gave candidates with one key, other sources and other
\* descriptions, and the one of a alone survived
C1_Witness ==
    /\ pc = "done"
    /\ \E i, j \in 1..Len(candidates) :
          /\ i < j
          /\ DedupKey(candidates[i]) = DedupKey(candidates[j])
          /\ candidates[i].source = <<"a">> /\ candidates[j].source = <<"b">>
          /\ candidates[i].title # candidates[j].title
          /\ candidates[i].description # candidates[j].description
          /\ all_findings = << candidates[i] >>

FailingOutcome(o) ==
    \/ o.kind \in { "unreachable", "timeout", "malformed" }
    \/ /\ o.kind = "json"
       /\ \/ o.data.t # "dict"
          \/ ~HasKey(o.data, k_response)
          \/ DictGet(o.data, k_response).t # "str"
          \/ strip(DictGet(o.data, k_response).v) = << >>

\* C2: with summarization enabled, every failing outcome of the collaborator
\* call (unreachable, timeout, malformed response, response without the
\* generated-text field, empty generated text) ends with the run completed and
\* the persisted report made of a one-line failure notice followed by the
\* fallback report of the deduplicated findings, never the empty text.
C2_FailureFallsBack ==
    /\ pc # "aborted"
    /\ (pc = "done" /\ llm = "ollama" /\ FailingOutcome(outcome)) =>
          /\ report # << >>
          /\ Len(report) >= 2
          /\ report[2].k = "notice"
          /\ SubSeq(report, 3, Len(report)) = render_fallback_report(artifact)

Count(events, e) == Cardinality({ i \in 1..Len(events) : events[i] = e })

\* C5: the collaborator is called exactly once in a run with summarization
\* enabled and never in a run with it disabled, a failed call is not retried;
\* with summarization disabled the report is the fallback rendering of the
\* deduplicated findings; the findings artifact is written before the call
\* and is the deduplicated list whatever the call did.
C5_OneCallNoRetry ==
    /\ Count(log, "llm_call") <= 1
    /\ llm = "none" => Count(log, "llm_call") = 0
    /\ (pc = "done" /\ llm = "ollama") => Count(log, "llm_call") = 1
    /\ (pc = "done" /\ llm = "none") => report = render_fallback_report(dedupe(candidates))
    /\ \A i \in 1..Len(log) :
          log[i] = "llm_call" => \E j \in 1..(i - 1) : log[j] = "write_findings"
    /\ AfterDedupe => artifact = dedupe(candidates)

\* a run whose one call timed out has completed with the artifact written
C5_Witness ==
    /\ pc = "done"
    /\ llm = "ollama"
    /\ outcome.kind = "timeout"
    /\ log = << "write_findings", "llm_call", "write_report" >>
    /\ artifact # << >>

WellFormed(f) ==
    /\ f.severity \in Taxonomy
    /\ Len(f.title) <= TitleMax
    /\ Len(f.description) <= DescriptionMax
    /\ Len(f.resource) <= ResourceMax

\* C7: every Finding extracted, kept by dedupe or written to the findings
\* artifact has a severity of the taxonomy, a title of at most 200 characters,
\* a description of at most 2000 and a resource of at most 500.
C7_FindingsWellFormed ==
    /\ \A i \in 1..Len(all_findings) : WellFormed(all_findings[i])
    /\ \A i \in 1..Len(candidates) : WellFormed(candidates[i])
    /\ \A i \in 1..Len(artifact) : WellFormed(artifact[i])

\* a node with over-long values and a padded alias is in the artifact, cut to
\* the maxima
C7_Witness ==
    /\ pc = "done"
    /\ \E i \in 1..Len(artifact) :
          /\ artifact[i].title = Rep("a", TitleMax)
          /\ artifact[i].description = Rep("b", DescriptionMax)
          /\ artifact[i].resource = Rep("c", ResourceMax)
          /\ artifact[i].severity = MEDIUM

PromptFields == { "source", "severity", "title", "resource", "description" }

\* C8: the prompt holds the first min(n, 400) Findings of the deduplicated
\* list, in order, each with exactly the fields source, severity, title,
\* resource and description and without its cve value; the Findings past
\* position 400 are not in the prompt and the artifact holds all n.
C8_PromptCappedAndProjected ==
    (pc = "done" /\ llm = "ollama") =>
        LET n == Len(all_findings)
            m == IF n < 400 THEN n ELSE 400
        IN  /\ Len(prompt.items) = m
            /\ \A i \in 1..m :
                  /\ DOMAIN prompt.items[i] = PromptFields
                  /\ \A fld \in PromptFields :
                        /\ prompt.items[i][fld] = all_findings[i][fld]
                        /\ Truthy(all_findings[i].cve) =>
                              prompt.items[i][fld] # PyStr(all_findings[i].cve)
            /\ \A j \in (m + 1)..n : \A i \in 1..m : prompt.items[i].title # all_findings[j].title
            /\ artifact = all_findings
            /\ Len(artifact) = n

\* a run on more than 400 findings has sent 400 of them
C8_Witness ==
    /\ pc = "done"
    /\ llm = "ollama"
    /\ Len(artifact) > PromptCap
    /\ Len(prompt.items) = PromptCap

\* C10: the traversal is depth-guarded: on a document nested deeper than a
\* fixed bound the run does not fail and the Findings above the bound, the one
\* of a finding-shaped root among them, are still returned.
C10_DepthGuarded ==
    /\ pc # "aborted"
    /\ AfterDedupe =>
          \A f \in Dir :
              (Ingested(f) /\ ClaimedShaped(f.data)) =>
                  \E i \in 1..Len(candidates) :
                      candidates[i] = MakeFinding(f.data, PathStem(f.name))

\* the positions of the lines of one kind in the rendered report
LinesOf(kind) == { i \in 1..Len(output) : output[i].k = kind }

\* the number of Findings of the full list with a severity, from a source
SevCount(sev) == Cardinality({ j \in 1..Len(input) : input[j].severity = sev })

SrcCount(src) == Cardinality({ j \in 1..Len(input) : input[j].source = src })

Min(a, b) == IF a < b THEN a ELSE b

\* how many lines of one kind follow line i without a gap
RunAfter(i, kind) ==
    LET runs == { m \in 0..(Len(output) - i) : \A j \in 1..m : output[i + j].k = kind }
    IN  CHOOSE m \in runs : \A n \in runs : n <= m

\* C6: in the fallback report the total is the length of the full list, the
\* six histogram entries, in taxonomy order, are the full counts per severity,
\* every source and every severity with Findings has one heading that shows
\* its full count, followed by at most 30 (source) or 50 (severity) lines, and
\* a severity without Findings has no section.
C6_CountsAreFullCounts ==
    pc = "returned" =>
        /\ Cardinality(LinesOf("total")) = 1
        /\ \A i \in LinesOf("total") : output[i].count = Len(input)
        /\ Cardinality(LinesOf("histogram")) = Len(SEV_ORDER)
        /\ \A i \in LinesOf("total") : \A s \in 1..Len(SEV_ORDER) :
              /\ output[i + 1 + s].k = "histogram"
              /\ output[i + 1 + s].severity = SEV_ORDER[s]
              /\ output[i + 1 + s].count = SevCount(SEV_ORDER[s])
        /\ \A j \in 1..Len(input) :
              Cardinality({ i \in LinesOf("source_heading") : output[i].source = input[j].source }) = 1
        /\ \A i \in LinesOf("source_heading") :
              /\ output[i].count = SrcCount(output[i].source)
              /\ output[i].count > 0
              /\ RunAfter(i, "source_item") = Min(SrcCount(output[i].source), 30)
        /\ \A sev \in Taxonomy :
              Cardinality({ i \in LinesOf("severity_heading") : output[i].severity = sev })
                  = IF SevCount(sev) = 0 THEN 0 ELSE 1
        /\ \A i \in LinesOf("severity_heading") :
              /\ output[i].count = SevCount(output[i].severity)
              /\ RunAfter(i, "severity_item") = Min(SevCount(output[i].severity), 50)
        /\ Cardinality(LinesOf("source_item"))
              = Cardinality({ j \in 1..Len(input) :
                    Cardinality({ h \in 1..j : input[h].source = input[j].source }) <= 30 })

\* a list with more than 30 Findings of one source, more than 50 of one
\* severity and none of another has been rendered
C6_Witness ==
    /\ pc = "returned"
    /\ \E i \in LinesOf("source_heading") : output[i].count > SourceListCap
    /\ \E i \in LinesOf("severity_heading") : output[i].count > SeverityListCap
    /\ \E i \in LinesOf("histogram") : output[i].count = 0

====
